---- MODULE Spec2Model ----
(***************************************************************************)
(* Model of cards.py: seven strategies that sort a deck of card faces into *)
(* the order of the reference list card_faces, and the harness that runs   *)
(* each of them against a baseline.                                        *)
(*                                                                         *)
(* Python values are encoded as integers.  The integer faces 2..10 are     *)
(* themselves; the string faces are integers outside the range of list     *)
(* positions, so that a face and a position can be told apart exactly when *)
(* Python can tell them apart ('Ace' is never equal to a position, while   *)
(* the face 2 is equal to the position 2).                                 *)
(***************************************************************************)
EXTENDS Integers, Sequences, FiniteSets, TLC

VARIABLES deck, card_faces, baseline, pc, printed, strategy, result, outcome

vars == <<deck, card_faces, baseline, pc, printed, strategy, result, outcome>>

\* ---------------------------------------------------------------- bounds
MaxLen == 3

\* ------------------------------------------------------------ card faces
Ace == 101
Jack == 111
Queen == 112
King == 113

\* a string label that is not in card_faces
Joker == King + 1

card_faces_literal == <<Ace, 2, 3, 4, 5, 6, 7, 8, 9, 10, Jack, Queen, King>>

Range(s) == {s[i] : i \in 1..Len(s)}

Ranks == Range(card_faces_literal)

ScenarioDeck == <<King, Ace, 2, King, Jack>>

ScenarioSorted == <<Ace, 2, Jack, King, King>>

SeqsUpTo(S, n) == UNION {[1..k -> S] : k \in 0..n}

\* decks the harness can generate: random.choice(card_faces) per card
RankDecks == SeqsUpTo(Ranks, MaxLen) \cup {ScenarioDeck}

\* decks a caller can hand to a strategy, unrecognized label included
AnyDecks == SeqsUpTo(Ranks \cup {Joker}, MaxLen) \cup {ScenarioDeck}

\* ------------------------------------------------------- python builtins
\* list.index(x): 0-based position of the first occurrence
index(list, x) ==
  (CHOOSE i \in 1..Len(list) :
      list[i] = x /\ \A j \in 1..(i-1) : list[j] # x) - 1

\* variant: [x] * (k - 1)
repeat_short(x, k) == [i \in 1..(k - 1) |-> x]

\* [x] * k
repeat(x, k) == [i \in 1..k |-> x]

\* variant: the comparison reversed, which sorts in descending order
insert_descending(s, x, key) ==
  LET n == Cardinality({i \in 1..Len(s) : key[s[i]] >= key[x]})
  IN  SubSeq(s, 1, n) \o <<x>> \o SubSeq(s, n+1, Len(s))

\* one step of the stable sort: x goes after every element whose key is <= its own
insert_stable(s, x, key) ==
  LET n == Cardinality({i \in 1..Len(s) : key[s[i]] <= key[x]})
  IN  SubSeq(s, 1, n) \o <<x>> \o SubSeq(s, n+1, Len(s))

RECURSIVE sorted_prefix(_,_,_)
sorted_prefix(list, key, n) ==
  IF n = 0 THEN <<>>
  ELSE insert_stable(sorted_prefix(list, key, n-1), list[n], key)

\* sorted(list, key=...): stable, ascending by key; key is a function on the elements
sorted(list, key) == sorted_prefix(list, key, Len(list))

\* --------------------------------------------------------- call outcomes
Return(value, h) ==
  [outcome |-> "ok", value |-> value,
   heap |-> [deck |-> h.deck, card_faces |-> h.card_faces]]

Raise(exc, h) ==
  [outcome |-> exc, value |-> <<>>,
   heap |-> [deck |-> h.deck, card_faces |-> h.card_faces]]

\* ------------------------------------------------------------ strategies
\* variant: enumerate(card_faces, 1)
card_values_from_one(faces) ==
  [f \in Range(faces) |->
     CHOOSE i \in 1..Len(faces) :
         faces[i] = f /\ \A j \in (i+1)..Len(faces) : faces[j] # f]

\* card_values = {}; for value, face in enumerate(card_faces): card_values[face] = value
card_values(faces) ==
  [f \in Range(faces) |->
     (CHOOSE i \in 1..Len(faces) :
         faces[i] = f /\ \A j \in (i+1)..Len(faces) : faces[j] # f) - 1]

sort_with_val_dict(h) ==
  LET cv == card_values(h.card_faces)
  IN  IF \E i \in 1..Len(h.deck) : h.deck[i] \notin DOMAIN cv
      THEN Raise("KeyError", h)
      ELSE Return(sorted(h.deck, cv), h)

sort_with_val_index(h) ==
  IF \E i \in 1..Len(h.deck) : h.deck[i] \notin Range(h.card_faces)
  THEN Raise("ValueError", h)
  ELSE Return(sorted(h.deck,
                     [x \in Range(h.deck) |-> index(h.card_faces, x)]), h)

\* for card in deck: counts[card] += 1, over the first n cards
RECURSIVE tally(_,_,_)
tally(counts, d, n) ==
  IF n = 0 THEN counts
  ELSE LET c == tally(counts, d, n-1)
       IN  [c EXCEPT ![d[n]] = @ + 1]

\* variant: for face in card_faces[1:]
RECURSIVE extend_counts_from_second(_,_,_)
extend_counts_from_second(faces, counts, n) ==
  IF n <= 1 THEN <<>>
  ELSE extend_counts_from_second(faces, counts, n-1)
         \o repeat(faces[n], counts[faces[n]])

\* for face in card_faces: ret.extend([face] * counts[face]), over the first n faces
RECURSIVE extend_counts(_,_,_)
extend_counts(faces, counts, n) ==
  IF n = 0 THEN <<>>
  ELSE extend_counts(faces, counts, n-1) \o repeat(faces[n], counts[faces[n]])

sort_with_dict_counts(h) ==
  LET counts == [f \in Range(h.card_faces) |-> 0]
  IN  IF \E i \in 1..Len(h.deck) : h.deck[i] \notin DOMAIN counts
      THEN Raise("KeyError", h)
      ELSE Return(extend_counts(h.card_faces,
                                tally(counts, h.deck, Len(h.deck)),
                                Len(h.card_faces)), h)

\* for card in deck: ordered_cards[card].append(card), over the first n cards
RECURSIVE fill_buckets(_,_,_)
fill_buckets(buckets, d, n) ==
  IF n = 0 THEN buckets
  ELSE LET b == fill_buckets(buckets, d, n-1)
       IN  [b EXCEPT ![d[n]] = Append(@, d[n])]

\* variant: a mapping that does not keep insertion order, here the reverse
RECURSIVE extend_buckets_reversed(_,_,_)
extend_buckets_reversed(faces, buckets, n) ==
  IF n = 0 THEN <<>>
  ELSE buckets[faces[n]] \o extend_buckets_reversed(faces, buckets, n-1)

\* for card_set in ordered_cards.values(): ret.extend(card_set); keys in insertion order
RECURSIVE extend_buckets(_,_,_)
extend_buckets(faces, buckets, n) ==
  IF n = 0 THEN <<>>
  ELSE extend_buckets(faces, buckets, n-1) \o buckets[faces[n]]

sort_ordered_dict(h) ==
  LET ordered_cards == [f \in Range(h.card_faces) |-> <<>>]
  IN  IF \E i \in 1..Len(h.deck) : h.deck[i] \notin DOMAIN ordered_cards
      THEN Raise("KeyError", h)
      ELSE Return(extend_buckets(h.card_faces,
                                 fill_buckets(ordered_cards, h.deck, Len(h.deck)),
                                 Len(h.card_faces)), h)

\* Counter(): a missing key reads as 0 and is created by +=
counter_tally(d) == tally([x \in Range(d) |-> 0], d, Len(d))

counter_get(counter, face) == IF face \in DOMAIN counter THEN counter[face] ELSE 0

sort_counter(h) ==
  LET counter == counter_tally(h.deck)
  IN  Return(extend_counts(h.card_faces,
                           [f \in Range(h.card_faces) |-> counter_get(counter, f)],
                           Len(h.card_faces)), h)

\* variant: ret = deck, the name ret bound to the shared list itself
slice_alias(src) == src

\* deck[:] is a new list: the name ret is bound to a cell of its own
slice_copy(src) == "local"

\* for index, face in enumerate(ret): ret[index] = card_values[face]
\* stops at the first face that is not a key; the cells before it stay overwritten
map_to_values(list, cv) ==
  LET bad == {i \in 1..Len(list) : list[i] \notin DOMAIN cv}
      stop == IF bad = {} THEN Len(list) + 1
              ELSE CHOOSE i \in bad : \A j \in bad : i <= j
  IN  [outcome |-> IF bad = {} THEN "ok" ELSE "KeyError",
       list |-> [i \in 1..Len(list) |->
                    IF i < stop THEN cv[list[i]] ELSE list[i]]]

\* for index, value in enumerate(ret): ret[index] = card_faces[value]
map_to_faces(list, faces) ==
  LET ok(v) == v >= -Len(faces) /\ v < Len(faces)
      get(v) == IF v >= 0 THEN faces[v + 1] ELSE faces[Len(faces) + v + 1]
      bad == {i \in 1..Len(list) : ~ok(list[i])}
      stop == IF bad = {} THEN Len(list) + 1
              ELSE CHOOSE i \in bad : \A j \in bad : i <= j
  IN  [outcome |-> IF bad = {} THEN "ok" ELSE "IndexError",
       list |-> [i \in 1..Len(list) |->
                    IF i < stop THEN get(list[i]) ELSE list[i]]]

sort_replace(h) ==
  LET ret == slice_copy("deck")
      h1 == [h EXCEPT ![ret] = h.deck]
      cv == card_values(h1.card_faces)
      m == map_to_values(h1[ret], cv)
      h2 == [h1 EXCEPT ![ret] = m.list]
      \* ret = sorted(ret) binds ret to a new list
      h3 == [h2 EXCEPT !.local = sorted(h2[ret], [x \in Range(h2[ret]) |-> x])]
      u == map_to_faces(h3.local, h3.card_faces)
      h4 == [h3 EXCEPT !.local = u.list]
  IN  IF m.outcome # "ok" THEN Raise(m.outcome, h2)
      ELSE IF u.outcome # "ok" THEN Raise(u.outcome, h4)
      ELSE Return(h4.local, h4)

\* variant: with the exchange sort the comment announces
bubble_sort_sorting(h) == sort_replace(h)

bubble_sort(h) ==
  LET ret == slice_copy("deck")
      h1 == [h EXCEPT ![ret] = h.deck]
      cv == card_values(h1.card_faces)
      m == map_to_values(h1[ret], cv)
      h2 == [h1 EXCEPT ![ret] = m.list]
      \* "manual bubble sort": no statement
      u == map_to_faces(h2[ret], h2.card_faces)
      h3 == [h2 EXCEPT ![ret] = u.list]
  IN  IF m.outcome # "ok" THEN Raise(m.outcome, h2)
      ELSE IF u.outcome # "ok" THEN Raise(u.outcome, h3)
      ELSE Return(h3[ret], h3)

Strategies ==
  <<"sort_with_val_dict", "sort_with_val_index", "sort_with_dict_counts",
    "sort_ordered_dict", "sort_counter", "sort_replace", "bubble_sort">>

GenuineStrategies == {Strategies[i] : i \in 1..6}

\* calling a strategy by name on the module globals h
run(name, h) ==
  CASE name = "sort_with_val_dict"    -> sort_with_val_dict(h)
    [] name = "sort_with_val_index"   -> sort_with_val_index(h)
    [] name = "sort_with_dict_counts" -> sort_with_dict_counts(h)
    [] name = "sort_ordered_dict"     -> sort_ordered_dict(h)
    [] name = "sort_counter"          -> sort_counter(h)
    [] name = "sort_replace"          -> sort_replace(h)
    [] name = "bubble_sort"           -> bubble_sort(h)

\* sorted(deck, key=lambda i: card_faces.index(i)), the value the harness asserts against
baseline_of(h) ==
  sorted(h.deck, [x \in Range(h.deck) |-> index(h.card_faces, x)])

Globals == [deck |-> deck, card_faces |-> card_faces, local |-> <<>>]

\* ------------------------------------------------ strategies called freely
Init ==
  /\ deck \in AnyDecks
  /\ card_faces = card_faces_literal
  /\ baseline = <<>>
  /\ pc = "caller"
  /\ printed = <<>>
  /\ strategy = "none"
  /\ result = <<>>
  /\ outcome = "none"

Call(name) ==
  LET r == run(name, Globals)
  IN  /\ pc = "caller"
      /\ deck' = r.heap.deck
      /\ card_faces' = r.heap.card_faces
      /\ strategy' = name
      /\ result' = r.value
      /\ outcome' = r.outcome
      /\ UNCHANGED <<baseline, pc, printed>>

call_sort_with_val_dict == Call("sort_with_val_dict")

call_sort_with_val_index == Call("sort_with_val_index")

call_sort_with_dict_counts == Call("sort_with_dict_counts")

call_sort_ordered_dict == Call("sort_ordered_dict")

call_sort_counter == Call("sort_counter")

call_sort_replace == Call("sort_replace")

call_bubble_sort == Call("bubble_sort")

Next ==
  \/ call_sort_with_val_dict
  \/ call_sort_with_val_index
  \/ call_sort_with_dict_counts
  \/ call_sort_ordered_dict
  \/ call_sort_counter
  \/ call_sort_replace
  \/ call_bubble_sort

Spec == Init /\ [][Next]_vars

\* ------------------------------------------------------------ the harness
Labels ==
  <<"Sort Builtin (Dict vals)", "Sort Builtin (Card index)", "Sort Dict Counter",
    "Sort Ordered Dict", "Sort Counter", "Sort Replace", "Bubble Sort">>

\* variant: assertions stripped
assert_skipped(x, base) == TRUE

\* assert x == baseline
assert_equal(x, base) == x = base

\* the statement after the k-th assert/print pair
after(k) == IF k = Len(Strategies) THEN "done" ELSE Strategies[k + 1]

HarnessInit ==
  /\ deck = <<>>
  /\ card_faces = card_faces_literal
  /\ baseline = <<>>
  /\ pc = "deck"
  /\ printed = <<>>
  /\ strategy = "none"
  /\ result = <<>>
  /\ outcome = "none"

\* deck = [random.choice(card_faces) for i in xrange(N)]
generate_deck ==
  /\ pc = "deck"
  /\ deck' \in RankDecks
  /\ Range(deck') \subseteq Range(card_faces)
  /\ pc' = "baseline"
  /\ UNCHANGED <<card_faces, baseline, printed, strategy, result, outcome>>

\* baseline = sorted(deck, key=lambda i: card_faces.index(i))
take_baseline ==
  /\ pc = "baseline"
  /\ baseline' = baseline_of(Globals)
  /\ pc' = Strategies[1]
  /\ UNCHANGED <<deck, card_faces, printed, strategy, result, outcome>>

\* assert <strategy>() == baseline; print('<label>: ...')
Step(k) ==
  LET r == run(Strategies[k], Globals)
  IN  /\ pc = Strategies[k]
      /\ deck' = r.heap.deck
      /\ card_faces' = r.heap.card_faces
      /\ strategy' = Strategies[k]
      /\ result' = r.value
      /\ outcome' = r.outcome
      /\ IF r.outcome # "ok"
         THEN pc' = r.outcome /\ printed' = printed
         ELSE IF assert_equal(r.value, baseline)
         THEN pc' = after(k) /\ printed' = Append(printed, Labels[k])
         ELSE pc' = "AssertionError" /\ printed' = printed
      /\ UNCHANGED baseline

step_sort_with_val_dict == Step(1)

step_sort_with_val_index == Step(2)

step_sort_with_dict_counts == Step(3)

step_sort_ordered_dict == Step(4)

step_sort_counter == Step(5)

step_sort_replace == Step(6)

step_bubble_sort == Step(7)

HarnessNext ==
  \/ generate_deck
  \/ take_baseline
  \/ step_sort_with_val_dict
  \/ step_sort_with_val_index
  \/ step_sort_with_dict_counts
  \/ step_sort_ordered_dict
  \/ step_sort_counter
  \/ step_sort_replace
  \/ step_bubble_sort

HarnessSpec == HarnessInit /\ [][HarnessNext]_vars

\* ------------------------------------------------------------ properties
\* number of occurrences of x in s
Count(s, x) == Cardinality({i \in 1..Len(s) : s[i] = x})

\* position of a label in the reference list; a label outside it sorts last
Position(x) ==
  IF x \in Range(card_faces) THEN index(card_faces, x) ELSE Len(card_faces)

NonDecreasing(s) ==
  \A i \in 1..Len(s) : \A j \in (i+1)..Len(s) : Position(s[i]) <= Position(s[j])

OverRanks(d) == Range(d) \subseteq Ranks

Called == pc = "caller" /\ strategy # "none"

\* C1: for every deck over the 13 ranks, the output of each of the seven
\* strategies is a permutation of the deck: the call returns, the output has
\* the deck's length and, for every rank, as many occurrences as the deck.
C1_Permutation ==
  (Called /\ OverRanks(deck)) =>
     /\ outcome = "ok"
     /\ Len(result) = Len(deck)
     /\ \A r \in Ranks : Count(result, r) = Count(deck, r)

C1_Witness ==
  /\ Called /\ strategy = "sort_with_dict_counts" /\ outcome = "ok"
  /\ Len(deck) = MaxLen /\ OverRanks(deck) /\ ~NonDecreasing(deck)
  /\ \E r \in Ranks : Count(deck, r) = 2 /\ Count(result, r) = 2

\* C2: for all seven strategies and every deck over the 13 ranks the output
\* is non-decreasing under the position of each rank in card_faces, and the
\* deck [King, Ace, 2, King, Jack] yields [Ace, 2, Jack, King, King].
C2_AllOutputsOrdered ==
  (Called /\ OverRanks(deck)) =>
     /\ outcome = "ok"
     /\ NonDecreasing(result)
     /\ deck = ScenarioDeck => result = ScenarioSorted

\* C3: for every deck over the 13 ranks each of the six genuine strategies
\* returns a sequence element-wise equal to the baseline
\* sorted(deck, key=card_faces.index).
C3_AgreesWithBaseline ==
  (Called /\ strategy \in GenuineStrategies /\ OverRanks(deck)) =>
     /\ outcome = "ok"
     /\ result = baseline_of(Globals)

C3_Witness ==
  /\ Called /\ strategy = "sort_ordered_dict" /\ outcome = "ok"
  /\ deck = ScenarioDeck /\ result = ScenarioSorted

\* C4: when the deck contains a label that is not one of the 13 ranks, every
\* strategy ends in a lookup-failure error; none returns normally.
C4_UnrecognizedLabelFails ==
  (Called /\ ~OverRanks(deck)) => outcome \in {"KeyError", "ValueError"}

\* C5: no strategy invocation changes the shared deck or card_faces, and
\* card_faces stays the 13-rank reference list.
C5_GlobalsUnchanged ==
  [][deck' = deck /\ card_faces' = card_faces /\ card_faces = card_faces_literal]_vars

C5_Witness ==
  /\ Called /\ strategy = "sort_replace" /\ outcome = "ok"
  /\ Len(deck) = MaxLen /\ result # deck /\ NonDecreasing(result)

\* C7: every strategy returns a deck that is already in non-decreasing rank
\* order as it is, and each of the six genuine strategies, applied to its own
\* output, returns that output again.
C7_Idempotent ==
  /\ (Called /\ OverRanks(deck) /\ NonDecreasing(deck)) =>
        outcome = "ok" /\ result = deck
  /\ (Called /\ strategy \in GenuineStrategies /\ OverRanks(deck)) =>
        /\ outcome = "ok"
        /\ run(strategy, [Globals EXCEPT !.deck = result]).outcome = "ok"
        /\ run(strategy, [Globals EXCEPT !.deck = result]).value = result

C7_Witness ==
  /\ Called /\ strategy = "sort_with_val_dict" /\ outcome = "ok"
  /\ deck = <<Ace, 2, King>> /\ result = deck

\* C8: for every strategy an empty deck yields an empty output without
\* error, a one-card deck yields that card, and a deck of N copies of one
\* rank yields N copies of that rank.
C8_Boundaries ==
  Called =>
     /\ deck = <<>> => outcome = "ok" /\ result = <<>>
     /\ (Len(deck) = 1 /\ OverRanks(deck)) => outcome = "ok" /\ result = deck
     /\ \A r \in Ranks :
          (\A i \in 1..Len(deck) : deck[i] = r) =>
             outcome = "ok" /\ result = repeat(r, Len(deck))

C8_Witness ==
  /\ Called /\ strategy = "sort_counter" /\ outcome = "ok"
  /\ deck = <<Queen, Queen, Queen>> /\ result = deck

Prefix(s, n) == SubSeq(s, 1, n)

StepOf(p) == CHOOSE k \in 1..Len(Strategies) : Strategies[k] = p

Terminated == pc \notin (Range(Strategies) \cup {"deck", "baseline"})

\* C6: the strategies are invoked and reported in the fixed order; a line is
\* printed only after its strategy's result was found equal to the baseline;
\* the first mismatch ends the run in a failure state with nothing invoked
\* or printed after it; the run ends normally only with all seven lines.
C6_Order ==
  /\ pc \in {"deck", "baseline"} => printed = <<>> /\ strategy = "none"
  /\ pc \in Range(Strategies) =>
       /\ printed = Prefix(Labels, StepOf(pc) - 1)
       /\ strategy = (IF StepOf(pc) = 1 THEN "none" ELSE Strategies[StepOf(pc) - 1])
       /\ StepOf(pc) > 1 => outcome = "ok" /\ result = baseline
  /\ pc = "done" =>
       printed = Labels /\ strategy = Strategies[7] /\ result = baseline
  /\ pc = "AssertionError" =>
       /\ Len(printed) < Len(Labels)
       /\ printed = Prefix(Labels, Len(printed))
       /\ strategy = Strategies[Len(printed) + 1]
       /\ outcome = "ok" /\ result # baseline

C6_Step ==
  /\ printed' # printed =>
       /\ printed' = Append(printed, Labels[Len(printed) + 1])
       /\ strategy' = Strategies[Len(printed')]
       /\ outcome' = "ok" /\ result' = baseline'
  /\ strategy' # strategy => pc = strategy'
  /\ Terminated => UNCHANGED vars

C6_HarnessOrder == []C6_Order /\ [][C6_Step]_vars

C6_Witness ==
  /\ pc = "AssertionError" /\ printed = Prefix(Labels, 6)
  /\ strategy = "bubble_sort" /\ deck = ScenarioDeck

\* C10: a run ends normally with all seven lines exactly when the deck is
\* already in non-decreasing rank order; for any other deck it prints the
\* first six lines and aborts at the bubble_sort assertion.
C10_Outcome ==
  /\ pc = "done" => NonDecreasing(deck) /\ printed = Labels
  /\ pc = "AssertionError" =>
       ~NonDecreasing(deck) /\ printed = Prefix(Labels, 6) /\ strategy = "bubble_sort"
  /\ pc \in Range(Strategies) \cup {"deck", "baseline", "done", "AssertionError"}

C10_Step ==
  /\ pc \in GenuineStrategies => pc' = after(StepOf(pc))
  /\ pc = "bubble_sort" =>
       IF NonDecreasing(deck)
       THEN pc' = "done" /\ printed' = Labels
       ELSE pc' = "AssertionError" /\ printed' = printed

====
